---- MODULE Spec2Model ----
(***************************************************************************)
(* The drag engine (composables/useDraggable.ts) and the Slider component  *)
(* built on it (Slider.vue, kept as unnamed/part_001), with the demo page  *)
(* that binds the Slider with v-model (unnamed/part_000).                  *)
(*                                                                         *)
(* Numbers.  JavaScript numbers are modelled as exact rationals <<n, d>>   *)
(* in lowest terms with d > 0; <<0,0>> is NaN and <<1,0>>, <<-1,0>> are    *)
(* +Infinity and -Infinity, so that a division by zero gives what the      *)
(* code gives.  Pixel coordinates, sizes and the Slider's min, max and     *)
(* step are drawn from integers.                                           *)
(*                                                                         *)
(* Scheduling.  A DOM event is one task of the browser's event loop; the   *)
(* jobs it queues (the parent's re-render, the Slider's position.x         *)
(* watcher, the continuation of `await nextTick()`) run as microtasks      *)
(* before the next event is dispatched, so the event actions are enabled   *)
(* only when no job is pending.                                            *)
(*                                                                         *)
(* Specifications.  EngineSpec: one engine used bare, over its             *)
(* configurations.  BindSpec: one engine whose eventTarget ref changes.    *)
(* TwoSpec: two engine instances on one document.  Spec: the Slider on     *)
(* its page.  QuantSpec: the Slider's value derivation alone.              *)
(***************************************************************************)
EXTENDS Integers, Sequences, FiniteSets, TLC

VARIABLES
    \* useDraggable parameters (fixed per engine instance)
    centered, useOffset, ignore,
    \* whether the engine is used bare or by the Slider component
    host,
    \* the DOM around the engine: sizes of the target and of its parent,
    \* and whether the target element exists and has a parent element
    dom, target,
    \* useDraggable state
    position, isDragging, parentRect, elementRect, relativeClickOffset,
    docListeners,
    \* Slider state: its props, the parent's v-model ref, the watcher's
    \* previous source value, the pending jobs
    props, sliderVal, watchedX, jobs,
    \* history: what the last step was, how many pointers are held down,
    \* the last emitted value and whether it repeated the one before it
    lastStep, held, lastEmit, repeated,
    \* the event source: the element the eventTarget ref holds, how many
    \* pointer-down listeners the watch has attached to each element, and
    \* (history) the element the last press landed on with the number of
    \* times it invoked onMouseDown
    eventTarget, downListeners, pressed,
    \* the state of a second engine instance
    other

configVars == <<centered, useOffset, ignore, host, dom, target>>
sessionVars == <<isDragging, parentRect, elementRect, relativeClickOffset, docListeners>>
engineVars == <<position, isDragging, parentRect, elementRect, relativeClickOffset, docListeners>>
sliderVars == <<props, sliderVal, watchedX, jobs>>
emitVars == <<lastEmit, repeated>>
bindVars == <<eventTarget, downListeners, pressed>>
vars == <<centered, useOffset, ignore, host, dom, target, position, isDragging,
          parentRect, elementRect, relativeClickOffset, docListeners, props,
          sliderVal, watchedX, jobs, lastStep, held, lastEmit, repeated,
          eventTarget, downListeners, pressed, other>>

----------------------------------------------------------------------------
\* Bounds of the model

\* pointer x coordinates are the multiples of the geometry's grid pitch
\* (dom.unit) from -1 to MaxGridX
MaxGridX == 3
\* pointer y coordinates are the multiples of 10 from -10 to 10 * MaxGridY
MaxGridY == 1
\* at most this many pointers (buttons, fingers) are held down at once
MaxHeld == 2
\* the target's left edge lies at a multiple of the grid pitch from 0 to
\* MaxPress from its parent's left edge
MaxPress == 1
\* the whole percentages a drag of the value derivation reaches: 0..MaxPct
MaxPct == 100
\* the watch of the event source attaches its listeners to one element at
\* most this many times
MaxBind == 2

----------------------------------------------------------------------------
\* JavaScript numbers as exact rationals

Abs(n) == IF n < 0 THEN -n ELSE n

Sign(n) == IF n < 0 THEN -1 ELSE IF n > 0 THEN 1 ELSE 0

RECURSIVE Gcd(_, _)
Gcd(a, b) == IF b = 0 THEN a ELSE Gcd(b, a % b)

Num(n, d) ==
    IF d = 0 THEN <<Sign(n), 0>>
    ELSE LET g == Gcd(Abs(n), Abs(d))
             s == IF d < 0 THEN -1 ELSE 1
         IN  <<(s * n) \div g, (s * d) \div g>>

I(n) == <<n, 1>>

NaN == <<0, 0>>

IsNaN(a) == a = NaN

IsFinite(a) == a[2] # 0

Add(a, b) ==
    IF IsFinite(a) /\ IsFinite(b) THEN Num(a[1] * b[2] + b[1] * a[2], a[2] * b[2])
    ELSE IF ~IsFinite(a) /\ ~IsFinite(b) THEN (IF a = b THEN a ELSE NaN)
    ELSE IF ~IsFinite(a) THEN a ELSE b

Neg(a) == <<-a[1], a[2]>>

Sub(a, b) == Add(a, Neg(b))

Mul(a, b) == Num(a[1] * b[1], a[2] * b[2])

Div(a, b) == Num(a[1] * b[2], a[2] * b[1])

\* a < b; false when either is NaN
Less(a, b) ==
    IF IsNaN(a) \/ IsNaN(b) THEN FALSE
    ELSE IF IsFinite(a) /\ IsFinite(b) THEN a[1] * b[2] < b[1] * a[2]
    ELSE IF ~IsFinite(a) /\ ~IsFinite(b) THEN a[1] < b[1]
    ELSE IF ~IsFinite(a) THEN a[1] < 0 ELSE b[1] > 0

Leq(a, b) == Less(a, b) \/ (a = b /\ ~IsNaN(a))

MathMax(a, b) == IF IsNaN(a) \/ IsNaN(b) THEN NaN ELSE IF Less(a, b) THEN b ELSE a

MathMin(a, b) == IF IsNaN(a) \/ IsNaN(b) THEN NaN ELSE IF Less(b, a) THEN b ELSE a

\* faulty variant: Math.floor in place of Math.round
MathRound_Floor(a) == IF IsFinite(a) THEN I(a[1] \div a[2]) ELSE a

\* Math.round: the nearest integer, a tie going up
MathRound(a) == IF IsFinite(a) THEN I((2 * a[1] + a[2]) \div (2 * a[2])) ELSE a

----------------------------------------------------------------------------
\* Events and the DOM

\* a DOMRect: left and top are numbers, width and height integers
NullRect == [isNull |-> TRUE, left |-> I(0), top |-> I(0), width |-> 0, height |-> 0]

Rect(l, t, w, h) == [isNull |-> FALSE, left |-> l, top |-> t, width |-> w, height |-> h]

PointerXs == {dom.unit * k : k \in -1..MaxGridX}

PointerYs == {10 * k : k \in -1..MaxGridY}

\* An event is a mouse event, or a touch event with its first active touch
\* point (touches = 0: a touch event that carries none); inIgnore: the
\* event's origin element lies inside the ignore region.
Event(type, x, y, touches, inIgnore) ==
    [type |-> type, clientX |-> I(x), clientY |-> I(y), touches |-> touches,
     inIgnore |-> inIgnore]

\* mousedown and touchstart events on the Slider's track
TrackEvents ==
    {Event("mouse", x, 0, 0, FALSE) : x \in PointerXs}
    \cup {Event("touch", x, 0, 1, FALSE) : x \in PointerXs}
    \cup {Event("touch", 0, 0, 0, FALSE)}

\* mousemove and touchmove events
MoveEvents ==
    {Event("mouse", x, y, 0, FALSE) : x \in PointerXs, y \in PointerYs}
    \cup {Event("touch", x, 0, 1, FALSE) : x \in PointerXs}
    \cup {Event("touch", 0, 0, 0, FALSE)}

\* element.parentElement.getBoundingClientRect()
ParentRect == Rect(I(dom.pLeft), I(dom.pTop), dom.pW, dom.pH)

\* element.getBoundingClientRect(): where the page has laid the target out,
\* its left edge a multiple of the grid pitch from the parent's left edge
TargetRects ==
    {Rect(I(dom.pLeft + dom.unit * k), I(dom.pTop), dom.eW, dom.eH) : k \in 0..MaxPress}

\* where on the target a pointer lands: its top-left or bottom-right corner
Grabs == {<<0, 0>>, <<dom.eW, dom.eH>>}

\* the mousedown and touchstart events that land on a target laid out at er
PressEvents(er) ==
    UNION {LET x == Add(er.left, I(g[1]))
               y == Add(er.top, I(g[2]))
           IN  {[type |-> "mouse", clientX |-> x, clientY |-> y, touches |-> 0,
                 inIgnore |-> i] : i \in BOOLEAN}
               \cup {[type |-> "touch", clientX |-> x, clientY |-> y,
                      touches |-> 1, inIgnore |-> i] : i \in BOOLEAN}
               \cup {[type |-> "touch", clientX |-> x, clientY |-> y,
                      touches |-> 0, inIgnore |-> FALSE]} : g \in Grabs}

NoJobs == [render |-> FALSE, watcher |-> FALSE, resume |-> FALSE,
           event |-> Event("mouse", 0, 0, 0, FALSE)]

Idle == jobs = NoJobs

NoValue == <<0, -1>>

\* the record of a step: the operation, whether its event carried a pointer
\* and lay in the ignore region, whether the step emitted update:modelValue
\* and whether it invoked onMouseDown
Step(op, ev, emitted, called) ==
    [op |-> op, point |-> (ev.type = "mouse" \/ ev.touches > 0),
     inIgnore |-> ev.inIgnore, emitted |-> emitted, called |-> called]

NoEvent == Event("none", 0, 0, 0, FALSE)

\* the elements the eventTarget ref can hold
Elements == {"a", "b"}

\* the watch has run once, for the element the ref held at setup
BoundOnce == [e \in Elements |-> IF e = "a" THEN 1 ELSE 0]

NoPress == [on |-> "none", calls |-> 0]

\* the state useDraggable creates for an instance
NewEngine ==
    [position |-> [x |-> I(0), y |-> I(0)], isDragging |-> FALSE,
     parentRect |-> NullRect, elementRect |-> NullRect,
     relativeClickOffset |-> [x |-> I(0), y |-> I(0)], docListeners |-> {}]

----------------------------------------------------------------------------
\* useDraggable

\* "touches" in _event ? _event.touches[0] : _event, undefined when missing
HasPoint(ev) == ev.type = "mouse" \/ ev.touches > 0

\* the ignore check of onMouseDown
Ignored(ev) ==
    \/ ignore = "selector" /\ ev.inIgnore
    \/ ignore = "ref" /\ ev.inIgnore
    \/ ignore = "emptyRef" /\ FALSE

\* faulty variant: the guards without the check for a missing touch point
StartsDrag_NoTouchPoint(ev) == target = "attached" /\ ~Ignored(ev)

\* the guards of onMouseDown: all pass and a drag starts
StartsDrag(ev) == target = "attached" /\ ~Ignored(ev) /\ HasPoint(ev)

\* the pointer's offset from the target's corner, or from its centre
ClickOffset(ev, er) ==
    [x |-> Sub(Sub(ev.clientX, er.left),
               IF centered THEN Num(er.width, 2) ELSE I(0)),
     y |-> Sub(Sub(ev.clientY, er.top),
               IF centered THEN Num(er.height, 2) ELSE I(0))]

\* faulty variant: onMouseDown without its ignore check
onMouseDown_NoIgnore(ev, er) ==
    IF target = "attached" /\ HasPoint(ev)
    THEN /\ elementRect' = er
         /\ parentRect' = ParentRect
         /\ relativeClickOffset' = ClickOffset(ev, er)
         /\ isDragging' = TRUE
         /\ docListeners' = docListeners \cup
                {"mousemove", "mouseup", "touchend", "touchmove"}
    ELSE UNCHANGED sessionVars

\* onMouseDown(_event, element); er is what element.getBoundingClientRect()
\* returns
onMouseDown(ev, er) ==
    IF StartsDrag(ev)
    THEN /\ elementRect' = er
         /\ parentRect' = ParentRect
         /\ relativeClickOffset' = ClickOffset(ev, er)
         /\ isDragging' = TRUE
         /\ docListeners' = docListeners \cup
                {"mousemove", "mouseup", "touchend", "touchmove"}
    ELSE UNCHANGED sessionVars

\* newX and newY of onMouseMove before the clamp
TargetCoordinate(ev, pRect, off) ==
    [x |-> Sub(Sub(ev.clientX, pRect.left), off.x),
     y |-> Sub(Sub(ev.clientY, pRect.top), off.y)]

\* minX, minY and maxX, maxY
ClampMin(eRect) ==
    [x |-> IF centered THEN Num(eRect.width, 2) ELSE I(0),
     y |-> IF centered THEN Num(eRect.height, 2) ELSE I(0)]

\* faulty variant: the upper bounds forget the target's size
ClampMax_NoTargetSize(pRect, eRect) ==
    [x |-> I(pRect.width), y |-> I(pRect.height)]

ClampMax(pRect, eRect) ==
    [x |-> Sub(I(pRect.width),
               IF centered THEN Num(eRect.width, 2) ELSE I(eRect.width)),
     y |-> Sub(I(pRect.height),
               IF centered THEN Num(eRect.height, 2) ELSE I(eRect.height))]

\* newX and newY after Math.max(min, Math.min(max, new))
ClampedCoordinate(ev, pRect, eRect, off) ==
    LET new == TargetCoordinate(ev, pRect, off)
        lo == ClampMin(eRect)
        hi == ClampMax(pRect, eRect)
    IN  [x |-> MathMax(lo.x, MathMin(hi.x, new.x)),
         y |-> MathMax(lo.y, MathMin(hi.y, new.y))]

\* percentX and percentY of the clamped coordinate new
Percent(new, pRect, eRect) ==
    LET offsetWidth == pRect.width - eRect.width
        percentX == IF useOffset
                    THEN (IF offsetWidth > 0
                          THEN Mul(Div(new.x, I(offsetWidth)), I(100))
                          ELSE I(0))
                    ELSE Mul(Div(new.x, I(pRect.width)), I(100))
        percentY == Mul(Div(new.y, I(pRect.height)), I(100))
    IN  [x |-> percentX, y |-> percentY]

\* the position onMouseMove computes
MovedPosition(ev) ==
    Percent(ClampedCoordinate(ev, parentRect, elementRect, relativeClickOffset),
            parentRect, elementRect)

\* onMouseMove runs past its guards
Moves(ev) ==
    isDragging /\ ~parentRect.isNull /\ ~elementRect.isNull /\ HasPoint(ev)

\* assigning position.value triggers the Slider's watcher job, when there is one
Trigger == IF host = "slider" THEN [jobs EXCEPT !.watcher = TRUE] ELSE jobs

onMouseMove(ev) ==
    IF Moves(ev)
    THEN /\ position' = MovedPosition(ev)
         /\ jobs' = Trigger
    ELSE UNCHANGED <<position, jobs>>

\* faulty variant: onMouseUp removes the listeners and leaves isDragging set
onMouseUp_KeepsDragging ==
    /\ docListeners' = docListeners \ {"mousemove", "mouseup", "touchend", "touchmove"}
    /\ UNCHANGED <<isDragging, parentRect, elementRect, relativeClickOffset>>

\* faulty variant: onMouseUp forgets the touchmove listener
onMouseUp_LeavesTouchMove ==
    /\ isDragging' = FALSE
    /\ docListeners' = docListeners \ {"mousemove", "mouseup", "touchend"}
    /\ UNCHANGED <<parentRect, elementRect, relativeClickOffset>>

onMouseUp ==
    /\ isDragging' = FALSE
    /\ docListeners' = docListeners \ {"mousemove", "mouseup", "touchend", "touchmove"}
    /\ UNCHANGED <<parentRect, elementRect, relativeClickOffset>>

----------------------------------------------------------------------------
\* The events of a bare engine

\* mousedown or touchstart on the event target: the listener of the watch
PointerDown(ev, er) ==
    /\ Idle
    /\ held < MaxHeld
    /\ onMouseDown(ev, er)
    /\ held' = held + 1
    /\ lastStep' = Step("down", ev, FALSE, TRUE)
    /\ UNCHANGED <<position, configVars, bindVars, other, sliderVars, emitVars>>

\* mousemove or touchmove on the document
PointerMove(ev) ==
    /\ Idle
    /\ IF (IF ev.type = "mouse" THEN "mousemove" ELSE "touchmove") \in docListeners
       THEN onMouseMove(ev)
       ELSE UNCHANGED <<position, jobs>>
    /\ lastStep' = Step("move", Event(ev.type, 0, 0, ev.touches, FALSE), FALSE, FALSE)
    /\ UNCHANGED <<sessionVars, configVars, bindVars, other, props, sliderVal, watchedX, held, emitVars>>

\* mouseup or touchend on the document
PointerUp(type) ==
    /\ Idle
    /\ held > 0
    /\ IF (IF type = "mouse" THEN "mouseup" ELSE "touchend") \in docListeners
       THEN onMouseUp
       ELSE UNCHANGED sessionVars
    /\ held' = held - 1
    /\ lastStep' = Step("up", Event(type, 0, 0, 0, FALSE), FALSE, FALSE)
    /\ UNCHANGED <<position, configVars, bindVars, other, sliderVars, emitVars>>

EngineDown == \E er \in TargetRects : \E ev \in PressEvents(er) : PointerDown(ev, er)

EngineMove == \E ev \in MoveEvents : PointerMove(ev)

EngineUp == \E type \in {"mouse", "touch"} : PointerUp(type)

DefaultProps == [modelValue |-> I(0), min |-> 0, max |-> 100, step |-> 1, disabled |-> FALSE]

\* a target inside a larger parent, and a target larger than its parent
RoomyDom == [pLeft |-> 10, pTop |-> 0, pW |-> 20, pH |-> 15, eW |-> 10, eH |-> 10,
             unit |-> 10]

TightDom == [pLeft |-> 0, pTop |-> 0, pW |-> 10, pH |-> 10, eW |-> 30, eH |-> 30,
             unit |-> 10]

\* the configurations of a bare engine: every centered/useOffset pair on
\* the roomy geometry, the tight geometry for a target that is not centered,
\* the ignore kinds and the missing target or parent on the plain ones
EngineConfigs ==
    {c \in [centered : BOOLEAN, useOffset : BOOLEAN,
            ignore : {"none", "selector", "ref", "emptyRef"},
            dom : {RoomyDom, TightDom},
            target : {"attached", "orphan", "none"}] :
        /\ c.dom = TightDom => ~c.centered
        /\ c.ignore # "none" => ~c.centered /\ c.dom = RoomyDom
        /\ c.target # "attached" =>
               ~c.centered /\ ~c.useOffset /\ c.dom = RoomyDom}

EngineInit ==
    /\ \E c \in EngineConfigs :
           /\ centered = c.centered
           /\ useOffset = c.useOffset
           /\ ignore = c.ignore
           /\ dom = c.dom
           /\ target = c.target
    /\ host = "bare"
    /\ position = [x |-> I(0), y |-> I(0)]
    /\ isDragging = FALSE
    /\ parentRect = NullRect
    /\ elementRect = NullRect
    /\ relativeClickOffset = [x |-> I(0), y |-> I(0)]
    /\ docListeners = {}
    /\ props = DefaultProps
    /\ sliderVal = I(0)
    /\ watchedX = I(0)
    /\ jobs = NoJobs
    /\ lastStep = Step("init", NoEvent, FALSE, FALSE)
    /\ held = 0
    /\ lastEmit = NoValue
    /\ repeated = FALSE
    /\ eventTarget = "a"
    /\ downListeners = BoundOnce
    /\ pressed = NoPress
    /\ other = NewEngine

EngineNext == EngineDown \/ EngineMove \/ EngineUp

EngineSpec == EngineInit /\ [][EngineNext]_vars

----------------------------------------------------------------------------
\* The event source.  The eventTarget ref holds an element or nothing; the
\* watch on it runs at setup and after every change of the ref, and
\* attaches a new pair of pointer-down listeners to the element the ref
\* holds then.  The target stays the same attached element.

\* the callback of watch(eventTarget), run with the ref holding e
Attach(e) ==
    IF e = "none"
    THEN downListeners
    ELSE [downListeners EXCEPT ![e] = @ + 1]

\* the ref is assigned e, another value than it holds; the watch runs
Rebind(e) ==
    /\ Idle
    /\ e # eventTarget
    /\ e \in Elements => downListeners[e] < MaxBind
    /\ eventTarget' = e
    /\ downListeners' = Attach(e)
    /\ lastStep' = Step("rebind", NoEvent, FALSE, FALSE)
    /\ UNCHANGED <<engineVars, configVars, pressed, other, sliderVars, held, emitVars>>

\* mousedown or touchstart on element e: every listener attached to e calls
\* onMouseDown(ev, target.value), each with the same event and measurements
BindPress(e, ev, er) ==
    /\ Idle
    /\ held < MaxHeld
    /\ IF downListeners[e] > 0
       THEN onMouseDown(ev, er)
       ELSE UNCHANGED sessionVars
    /\ pressed' = [on |-> e, calls |-> downListeners[e]]
    /\ held' = held + 1
    /\ lastStep' = Step("down", ev, FALSE, downListeners[e] > 0)
    /\ UNCHANGED <<position, configVars, eventTarget, downListeners, other,
                   sliderVars, emitVars>>

BindRebind == \E e \in Elements \cup {"none"} : Rebind(e)

BindDown ==
    \E e \in Elements : \E er \in TargetRects :
        \E ev \in {p \in PressEvents(er) : ~p.inIgnore} : BindPress(e, ev, er)

BindMove == \E ev \in {e \in MoveEvents : e.clientY = I(0)} : PointerMove(ev)

BindUp == \E type \in {"mouse", "touch"} : PointerUp(type)

BindInit ==
    /\ centered = FALSE
    /\ useOffset = FALSE
    /\ ignore = "none"
    /\ dom = RoomyDom
    /\ target = "attached"
    /\ host = "bare"
    /\ position = NewEngine.position
    /\ isDragging = NewEngine.isDragging
    /\ parentRect = NewEngine.parentRect
    /\ elementRect = NewEngine.elementRect
    /\ relativeClickOffset = NewEngine.relativeClickOffset
    /\ docListeners = NewEngine.docListeners
    /\ props = DefaultProps
    /\ sliderVal = I(0)
    /\ watchedX = I(0)
    /\ jobs = NoJobs
    /\ lastStep = Step("init", NoEvent, FALSE, FALSE)
    /\ held = 0
    /\ lastEmit = NoValue
    /\ repeated = FALSE
    /\ eventTarget \in {"none", "a"}
    /\ downListeners = [e \in Elements |-> IF e = eventTarget THEN 1 ELSE 0]
    /\ pressed = NoPress
    /\ other = NewEngine

BindNext == BindRebind \/ BindDown \/ BindMove \/ BindUp

BindSpec == BindInit /\ [][BindNext]_vars

----------------------------------------------------------------------------
\* Two engine instances on one document.  The first instance is the engine
\* of the variables above; the second keeps its state in the record other.
\* Both have the same parameters and the same geometry.  A press lands on
\* the event target of one instance; a document-level event is dispatched
\* to the listeners each instance has registered.

\* onMouseDown of the second instance
OtherDown(ev, er) ==
    IF StartsDrag(ev)
    THEN [other EXCEPT !.elementRect = er,
                       !.parentRect = ParentRect,
                       !.relativeClickOffset = ClickOffset(ev, er),
                       !.isDragging = TRUE,
                       !.docListeners = @ \cup {"mousemove", "mouseup",
                                                 "touchend", "touchmove"}]
    ELSE other

\* a mousemove or touchmove on the document, as the second instance sees it
OtherMove(ev) ==
    IF /\ (IF ev.type = "mouse" THEN "mousemove" ELSE "touchmove") \in other.docListeners
       /\ other.isDragging
       /\ ~other.parentRect.isNull
       /\ ~other.elementRect.isNull
       /\ HasPoint(ev)
    THEN [other EXCEPT !.position =
              Percent(ClampedCoordinate(ev, other.parentRect, other.elementRect,
                                        other.relativeClickOffset),
                      other.parentRect, other.elementRect)]
    ELSE other

\* a mouseup or touchend on the document, as the second instance sees it
OtherUp(type) ==
    IF (IF type = "mouse" THEN "mouseup" ELSE "touchend") \in other.docListeners
    THEN [other EXCEPT !.isDragging = FALSE,
                       !.docListeners = @ \ {"mousemove", "mouseup",
                                              "touchend", "touchmove"}]
    ELSE other

\* faulty variant: a press on the first instance's event target reaches the
\* handlers of both instances
PressFirst_ReachesBoth(ev, er) ==
    /\ Idle
    /\ held < MaxHeld
    /\ onMouseDown(ev, er)
    /\ other' = OtherDown(ev, er)
    /\ held' = held + 1
    /\ lastStep' = Step("down", ev, FALSE, TRUE)
    /\ UNCHANGED <<position, configVars, bindVars, sliderVars, emitVars>>

\* mousedown or touchstart on the first instance's event target
PressFirst(ev, er) == PointerDown(ev, er)

\* mousedown or touchstart on the second instance's event target
PressSecond(ev, er) ==
    /\ Idle
    /\ held < MaxHeld
    /\ other' = OtherDown(ev, er)
    /\ held' = held + 1
    /\ lastStep' = Step("downOther", ev, FALSE, FALSE)
    /\ UNCHANGED <<engineVars, configVars, bindVars, sliderVars, emitVars>>

\* mousemove or touchmove on the document
DocumentMove(ev) ==
    /\ Idle
    /\ IF (IF ev.type = "mouse" THEN "mousemove" ELSE "touchmove") \in docListeners
       THEN onMouseMove(ev)
       ELSE UNCHANGED <<position, jobs>>
    /\ other' = OtherMove(ev)
    /\ lastStep' = Step("move", Event(ev.type, 0, 0, ev.touches, FALSE), FALSE, FALSE)
    /\ UNCHANGED <<sessionVars, configVars, bindVars, props, sliderVal, watchedX,
                   held, emitVars>>

\* mouseup or touchend on the document
DocumentUp(type) ==
    /\ Idle
    /\ held > 0
    /\ IF (IF type = "mouse" THEN "mouseup" ELSE "touchend") \in docListeners
       THEN onMouseUp
       ELSE UNCHANGED sessionVars
    /\ other' = OtherUp(type)
    /\ held' = held - 1
    /\ lastStep' = Step("up", Event(type, 0, 0, 0, FALSE), FALSE, FALSE)
    /\ UNCHANGED <<position, configVars, bindVars, sliderVars, emitVars>>

TwoDownFirst == \E er \in TargetRects : \E ev \in PressEvents(er) : PressFirst(ev, er)

TwoDownSecond == \E er \in TargetRects : \E ev \in PressEvents(er) : PressSecond(ev, er)

\* the pointers of two instances side by side move along y = 0
TwoMove == \E ev \in {e \in MoveEvents : e.clientY = I(0)} : DocumentMove(ev)

TwoUp == \E type \in {"mouse", "touch"} : DocumentUp(type)

TwoInit ==
    /\ centered = FALSE
    /\ useOffset \in BOOLEAN
    /\ ignore = "none"
    /\ dom = RoomyDom
    /\ target = "attached"
    /\ host = "bare"
    /\ position = NewEngine.position
    /\ isDragging = NewEngine.isDragging
    /\ parentRect = NewEngine.parentRect
    /\ elementRect = NewEngine.elementRect
    /\ relativeClickOffset = NewEngine.relativeClickOffset
    /\ docListeners = NewEngine.docListeners
    /\ props = DefaultProps
    /\ sliderVal = I(0)
    /\ watchedX = I(0)
    /\ jobs = NoJobs
    /\ lastStep = Step("init", NoEvent, FALSE, FALSE)
    /\ held = 0
    /\ lastEmit = NoValue
    /\ repeated = FALSE
    /\ eventTarget = "a"
    /\ downListeners = BoundOnce
    /\ pressed = NoPress
    /\ other = NewEngine

TwoNext == TwoDownFirst \/ TwoDownSecond \/ TwoMove \/ TwoUp

TwoSpec == TwoInit /\ [][TwoNext]_vars

----------------------------------------------------------------------------
\* Slider

valueAsPercentage ==
    LET range == props.max - props.min
        normalizedValue == Sub(props.modelValue, I(props.min))
    IN  Mul(Div(normalizedValue, I(range)), I(100))

\* faulty variant: the interpolation forgets to add min
WatchValue_NoMin(pr, newPercentageX) ==
    LET range == pr.max - pr.min
        raw == Mul(Div(newPercentageX, I(100)), I(range))
        stepped == IF pr.step > 0
                   THEN Mul(MathRound(Div(raw, I(pr.step))), I(pr.step))
                   ELSE raw
    IN  MathMax(I(pr.min), MathMin(I(pr.max), stepped))

\* the value the position.x watcher derives from a percentage, under props pr
WatchValue(pr, newPercentageX) ==
    LET range == pr.max - pr.min
        raw == Add(Mul(Div(newPercentageX, I(100)), I(range)), I(pr.min))
        stepped == IF pr.step > 0
                   THEN Mul(MathRound(Div(raw, I(pr.step))), I(pr.step))
                   ELSE raw
    IN  MathMax(I(pr.min), MathMin(I(pr.max), stepped))

\* faulty variant: the callback without its disabled check
WatchCallbackEmits_NoDisabled(pr, newPercentageX) ==
    WatchValue(pr, newPercentageX) # pr.modelValue

\* the watcher's callback, called with newPercentageX under props pr, emits
WatchCallbackEmits(pr, newPercentageX) ==
    /\ ~pr.disabled
    /\ WatchValue(pr, newPercentageX) # pr.modelValue

\* the watcher's job emits: it calls the callback only when position.x
\* differs from the value the watcher saw last
WatchEmits(pr) ==
    /\ position.x # watchedX
    /\ WatchCallbackEmits(pr, position.x)

\* faulty variant: the thumb's left edge, not its centre, goes under the pointer
ClickPercentage_NoHalfThumb(ev) ==
    LET trackRect == ParentRect
        thumbWidth == dom.eW
        clickX == Sub(ev.clientX, trackRect.left)
        effectiveWidth == trackRect.width - thumbWidth
        clampedX == MathMax(I(0), MathMin(clickX, I(effectiveWidth)))
    IN  IF effectiveWidth > 0
        THEN Mul(Div(clampedX, I(effectiveWidth)), I(100))
        ELSE I(0)

\* the percentage handleTrackClick computes for a press at ev
ClickPercentage(ev) ==
    LET trackRect == ParentRect
        thumbWidth == dom.eW
        clickX == Sub(ev.clientX, trackRect.left)
        effectiveWidth == trackRect.width - thumbWidth
        targetX == Sub(clickX, Num(thumbWidth, 2))
        clampedX == MathMax(I(0), MathMin(targetX, I(effectiveWidth)))
    IN  IF effectiveWidth > 0
        THEN Mul(Div(clampedX, I(effectiveWidth)), I(100))
        ELSE I(0)

\* the value handleTrackClick derives from a percentage
ClickValue(percentage) ==
    LET range == props.max - props.min
        raw == Add(Mul(Div(percentage, I(100)), I(range)), I(props.min))
        stepped == IF props.step # 0 /\ props.step > 0
                   THEN Mul(MathRound(Div(raw, I(props.step))), I(props.step))
                   ELSE raw
    IN  MathMax(I(props.min), MathMin(I(props.max), stepped))

\* handleTrackClick runs past its guards
Clicks(ev) == ~props.disabled /\ target = "attached" /\ HasPoint(ev)

\* faulty variant: the handler emits without comparing with props.modelValue
ClickEmits_Always(ev) == Clicks(ev)

ClickEmits(ev) == Clicks(ev) /\ ClickValue(ClickPercentage(ev)) # props.modelValue

\* emit("update:modelValue", v): the page's v-model handler assigns its ref,
\* which queues the re-render that passes the value down as props.modelValue
Emit(v) ==
    /\ sliderVal' = v
    /\ lastEmit' = v
    /\ repeated' = (v = lastEmit)

\* handleTrackClick up to its await
handleTrackClick(ev) ==
    IF Clicks(ev)
    THEN /\ position' = [x |-> ClickPercentage(ev), y |-> I(0)]
         /\ IF ClickEmits(ev)
            THEN Emit(ClickValue(ClickPercentage(ev)))
            ELSE UNCHANGED <<sliderVal, lastEmit, repeated>>
         /\ jobs' = [render |-> jobs.render \/ ClickEmits(ev), watcher |-> TRUE,
                     resume |-> TRUE, event |-> ev]
    ELSE UNCHANGED <<position, sliderVal, lastEmit, repeated, jobs>>

\* mousedown on the thumb: the engine's listener; @mousedown.stop keeps the
\* event from the track
ThumbMouseDown(ev, er) == ev.type = "mouse" /\ PointerDown(ev, er)

\* touchstart on the thumb: the engine's listener, then the track's handler
\* as the event bubbles
ThumbTouchStart(ev, er) ==
    /\ ev.type = "touch"
    /\ Idle
    /\ held < MaxHeld
    /\ onMouseDown(ev, er)
    /\ handleTrackClick(ev)
    /\ held' = held + 1
    /\ lastStep' = Step("thumbTouch", ev, ClickEmits(ev), TRUE)
    /\ UNCHANGED <<configVars, bindVars, other, props, watchedX>>

\* mousedown or touchstart on the track outside the thumb
TrackPress(ev) ==
    /\ Idle
    /\ held < MaxHeld
    /\ handleTrackClick(ev)
    /\ held' = held + 1
    /\ lastStep' = Step("track", ev, ClickEmits(ev), FALSE)
    /\ UNCHANGED <<sessionVars, configVars, bindVars, other, props, watchedX>>

\* the page re-renders: the Slider gets the new props.modelValue and, before it
\* renders, its pending watcher job runs (flushPreFlushCbs)
RenderJob ==
    /\ jobs.render
    /\ LET pr == [props EXCEPT !.modelValue = sliderVal]
           emits == jobs.watcher /\ WatchEmits(pr)
       IN  /\ props' = pr
           /\ watchedX' = IF jobs.watcher THEN position.x ELSE watchedX
           /\ IF emits
              THEN Emit(WatchValue(pr, position.x))
              ELSE UNCHANGED <<sliderVal, lastEmit, repeated>>
           /\ jobs' = [jobs EXCEPT !.render = emits, !.watcher = FALSE]
           /\ lastStep' = Step("render", NoEvent, emits, FALSE)
    /\ UNCHANGED <<engineVars, configVars, bindVars, other, held>>

\* the watcher's job, when no re-render of the page precedes it
WatcherJob ==
    /\ ~jobs.render
    /\ jobs.watcher
    /\ watchedX' = position.x
    /\ IF WatchEmits(props)
       THEN Emit(WatchValue(props, position.x))
       ELSE UNCHANGED <<sliderVal, lastEmit, repeated>>
    /\ jobs' = [jobs EXCEPT !.render = WatchEmits(props), !.watcher = FALSE]
    /\ lastStep' = Step("watcher", NoEvent, WatchEmits(props), FALSE)
    /\ UNCHANGED <<engineVars, configVars, bindVars, other, props, held>>

\* faulty variant: the handler ends at its await and never starts the drag
ResumeJob_NoDragStart(er) ==
    /\ ~jobs.render
    /\ ~jobs.watcher
    /\ jobs.resume
    /\ jobs' = NoJobs
    /\ lastStep' = Step("resume", jobs.event, FALSE, FALSE)
    /\ UNCHANGED <<engineVars, configVars, bindVars, other, props, sliderVal, watchedX, held, emitVars>>

\* handleTrackClick after nextTick: onMouseDown(_event, thumbRef.value)
ResumeJob(er) ==
    /\ ~jobs.render
    /\ ~jobs.watcher
    /\ jobs.resume
    /\ onMouseDown(jobs.event, er)
    /\ jobs' = NoJobs
    /\ lastStep' = Step("resume", jobs.event, FALSE, TRUE)
    /\ UNCHANGED <<position, configVars, bindVars, other, props, sliderVal, watchedX, held, emitVars>>

SliderThumbMouse ==
    \E er \in TargetRects : \E ev \in {e \in PressEvents(er) : ~e.inIgnore} :
        ThumbMouseDown(ev, er)

SliderThumbTouch ==
    \E er \in TargetRects : \E ev \in {e \in PressEvents(er) : ~e.inIgnore} :
        ThumbTouchStart(ev, er)

SliderResume == \E er \in TargetRects : ResumeJob(er)

SliderTrack == \E ev \in TrackEvents : TrackPress(ev)

\* the Slider reads position.x alone: its pointers move along y = 0
SliderMove == \E ev \in {e \in MoveEvents : e.clientY = I(0)} : PointerMove(ev)

SliderUp == \E type \in {"mouse", "touch"} : PointerUp(type)

\* the demo page's Slider (min 0, max 100, step 1) on a 200px track with a
\* 20px thumb, and a Slider from 1 to 5 in steps of 2 on a 50px track
DemoDom == [pLeft |-> 0, pTop |-> 0, pW |-> 200, pH |-> 20, eW |-> 20, eH |-> 20,
            unit |-> 50]

SmallDom == [pLeft |-> 10, pTop |-> 0, pW |-> 50, pH |-> 20, eW |-> 10, eH |-> 10,
             unit |-> 10]

SliderConfigs ==
    {[min |-> 0, max |-> 100, step |-> 1, modelValue |-> 50, dom |-> DemoDom],
     [min |-> 1, max |-> 5, step |-> 2, modelValue |-> 1, dom |-> SmallDom]}

Init ==
    /\ centered = FALSE
    /\ useOffset = TRUE
    /\ ignore = "none"
    /\ host = "slider"
    /\ target = "attached"
    /\ \E c \in SliderConfigs, d \in BOOLEAN :
           /\ dom = c.dom
           /\ props = [modelValue |-> I(c.modelValue), min |-> c.min, max |-> c.max,
                       step |-> c.step, disabled |-> d]
           /\ sliderVal = I(c.modelValue)
    /\ position = [x |-> I(0), y |-> I(0)]
    /\ isDragging = FALSE
    /\ parentRect = NullRect
    /\ elementRect = NullRect
    /\ relativeClickOffset = [x |-> I(0), y |-> I(0)]
    /\ docListeners = {}
    /\ watchedX = I(0)
    /\ jobs = NoJobs
    /\ lastStep = Step("init", NoEvent, FALSE, FALSE)
    /\ held = 0
    /\ lastEmit = NoValue
    /\ repeated = FALSE
    /\ eventTarget = "a"
    /\ downListeners = BoundOnce
    /\ pressed = NoPress
    /\ other = NewEngine

Next ==
    \/ SliderThumbMouse
    \/ SliderThumbTouch
    \/ SliderTrack
    \/ SliderMove
    \/ SliderUp
    \/ RenderJob
    \/ WatcherJob
    \/ SliderResume

Spec == Init /\ [][Next]_vars

----------------------------------------------------------------------------
\* The value derivation alone: a Slider whose props are drawn from a range
\* of min, max, step and modelValue, whose position.x a drag moves to any
\* whole percentage or to the percentage the thumb is rendered at, and
\* whose page applies every emitted value.

QuantRanges ==
    {[min |-> 0, max |-> 100, step |-> 10],
     [min |-> 0, max |-> 20, step |-> 1],
     [min |-> 0, max |-> 9, step |-> 3],
     [min |-> 2, max |-> 10, step |-> 2],
     [min |-> -4, max |-> 8, step |-> 4],
     [min |-> 1, max |-> 5, step |-> 2],
     [min |-> 0, max |-> 7, step |-> 0]}

Percentages ==
    {I(k) : k \in 0..MaxPct}
    \cup (IF IsFinite(valueAsPercentage) THEN {valueAsPercentage} ELSE {})

\* position.x becomes p; the watcher's job runs and the page re-renders
\* with the emitted value
DragTo(p) ==
    /\ position' = [position EXCEPT !.x = p]
    /\ watchedX' = p
    /\ IF p # watchedX /\ WatchCallbackEmits(props, p)
       THEN /\ Emit(WatchValue(props, p))
            /\ props' = [props EXCEPT !.modelValue = WatchValue(props, p)]
       ELSE UNCHANGED <<sliderVal, lastEmit, repeated, props>>
    /\ lastStep' = Step("drag", NoEvent, p # watchedX /\ WatchCallbackEmits(props, p), FALSE)
    /\ UNCHANGED <<sessionVars, configVars, bindVars, other, jobs, held>>

QuantInit ==
    /\ centered = FALSE
    /\ useOffset = TRUE
    /\ ignore = "none"
    /\ host = "slider"
    /\ target = "attached"
    /\ dom = DemoDom
    /\ \E r \in QuantRanges : \E v \in r.min..r.max :
           /\ props = [modelValue |-> I(v), min |-> r.min, max |-> r.max,
                       step |-> r.step, disabled |-> FALSE]
           /\ sliderVal = I(v)
    /\ position = [x |-> I(0), y |-> I(0)]
    /\ isDragging = FALSE
    /\ parentRect = NullRect
    /\ elementRect = NullRect
    /\ relativeClickOffset = [x |-> I(0), y |-> I(0)]
    /\ docListeners = {}
    /\ watchedX = I(0)
    /\ jobs = NoJobs
    /\ lastStep = Step("init", NoEvent, FALSE, FALSE)
    /\ held = 0
    /\ lastEmit = NoValue
    /\ repeated = FALSE
    /\ eventTarget = "a"
    /\ downListeners = BoundOnce
    /\ pressed = NoPress
    /\ other = NewEngine

QuantNext == \E p \in Percentages : DragTo(p)

QuantSpec == QuantInit /\ [][QuantNext]_vars

----------------------------------------------------------------------------
\* a percentage lies within [0,100]
InRange(a) == Leq(I(0), a) /\ Leq(a, I(100))

IgnoredPressChangesNothing ==
    [][(/\ lastStep'.op = "down"
        /\ lastStep'.inIgnore
        /\ ignore \in {"selector", "ref"}) => UNCHANGED engineVars]_vars

IgnoredPressWhileIdle ==
    /\ lastStep.op = "down"
    /\ lastStep.inIgnore
    /\ ignore = "selector"
    /\ target = "attached"
    /\ ~isDragging
    /\ docListeners = {}

\* C11: a pointer-down handled when the target element is missing, when
\* the target has no parent element, or when it is a touch event with no
\* active touch point changes neither isDragging, nor position, nor the
\* captured session data, nor the document-level listeners.
AbnormalPressChangesNothing ==
    [][(/\ lastStep'.op = "down"
        /\ (target \in {"none", "orphan"} \/ ~lastStep'.point)) =>
            UNCHANGED engineVars]_vars

\* a touchstart without a touch point has been handled during a drag
AbnormalTouchDuringDrag ==
    /\ lastStep.op = "down"
    /\ ~lastStep.point
    /\ target = "attached"
    /\ isDragging
    /\ held = 2

\* the last step invoked onMouseDown with a pointer, on a target that has a
\* parent, outside the ignore region
ValidStart ==
    /\ lastStep.called
    /\ lastStep.point
    /\ target = "attached"
    /\ ~(lastStep.inIgnore /\ ignore \in {"selector", "ref"})

\* C2: isDragging is true exactly from a valid drag-start to the pointer-up
\* or touch-end after it: it is true only while a pointer is held down, it
\* is true after every onMouseDown that passed its guards, false after every
\* pointer-up, it becomes true only in a step that invoked onMouseDown and
\* false only in a pointer-up step.
DraggingBetweenStartAndEnd ==
    /\ [](isDragging => held > 0)
    /\ [](ValidStart => isDragging)
    /\ [](lastStep.op = "up" => ~isDragging)
    /\ [][(~isDragging /\ isDragging') => ValidStart']_vars
    /\ [][(isDragging /\ ~isDragging') => lastStep'.op = "up"]_vars

\* a drag session has been started and ended
SessionStartedAndEnded ==
    /\ lastStep.op = "up"
    /\ ~isDragging
    /\ held = 0
    /\ ~elementRect.isNull

\* C3: every emitted value lies within [min,max] and is min + k*step for an
\* integer k >= 0.
EmittedOnStepGridFromMin ==
    (lastEmit # NoValue /\ props.step > 0 /\ props.min <= props.max) =>
        /\ Leq(I(props.min), lastEmit)
        /\ Leq(lastEmit, I(props.max))
        /\ lastEmit[2] = 1
        /\ (lastEmit[1] - props.min) % props.step = 0

\* C5: a disabled Slider never emits, while a press on its thumb that
\* carries a pointer still starts a drag.
DisabledNeverEmits ==
    props.disabled =>
        /\ lastEmit = NoValue
        /\ ~lastStep.emitted
        /\ sliderVal = props.modelValue
        /\ (lastStep.op \in {"down", "thumbTouch"} /\ lastStep.point => isDragging)

DisabledThumbDragged ==
    /\ props.disabled
    /\ isDragging
    /\ lastStep.op = "move"
    /\ position.x # I(0)
    /\ lastEmit = NoValue

\* C6: no emitted value repeats the one emitted before it.
NeverEmitsSameValueTwice == ~repeated

\* a track press has emitted, and the watcher's job that its own position
\* change queued has run without emitting again
WatcherSilentAfterClickEmit ==
    /\ lastStep.op = "render"
    /\ ~lastStep.emitted
    /\ jobs.resume
    /\ ~jobs.watcher
    /\ watchedX = position.x
    /\ lastEmit # NoValue
    /\ lastEmit = props.modelValue

\* C12: on an enabled Slider whose page applies every emitted value, once
\* the jobs of a processed move or track press have run, modelValue equals
\* the value derived from position.x: a derived value that differs from
\* modelValue has been emitted.
DerivedValueAlwaysEmitted ==
    (/\ Idle
     /\ lastStep.op \in {"watcher", "render", "resume"}
     /\ ~props.disabled) =>
        /\ props.modelValue = WatchValue(props, position.x)
        /\ sliderVal = props.modelValue

\* C13: position changes only in a step that processes a move event during
\* an active drag or a press on the Slider's track; a pointer-down on the
\* target, a pointer-up, a move event while the engine is idle and a change
\* of modelValue leave it unchanged.
PositionChangedOnlyByMoveOrTrackPress ==
    [][position' # position =>
          \/ lastStep'.op = "move" /\ isDragging
          \/ lastStep'.op = "track"]_vars

\* C14: a pointer-down on the thumb, by mouse or by touch, starts a drag
\* and does not run the click-to-jump handler: right after it the engine is
\* dragging, nothing has been emitted, position has not been assigned (no
\* watcher job is pending) and no deferred drag-start is pending, so that
\* onMouseDown runs once for the press.
ThumbPressOnlyStartsDrag ==
    (lastStep.op \in {"down", "thumbTouch"} /\ lastStep.point) =>
        /\ isDragging
        /\ lastStep.called
        /\ ~lastStep.emitted
        /\ ~jobs.watcher
        /\ ~jobs.resume

\* min < max, step > 0 and modelValue a multiple of step within [min,max]
RoundTripCase ==
    /\ props.min < props.max
    /\ props.step > 0
    /\ props.modelValue[2] = 1
    /\ props.modelValue[1] % props.step = 0
    /\ props.min <= props.modelValue[1]
    /\ props.modelValue[1] <= props.max

\* C7: for min < max, step > 0 and a modelValue v in [min,max] that is a
\* multiple of step, the rendered percentage is (v-min)/(max-min)*100 and a
\* drag to exactly that percentage derives v again: it emits nothing and
\* leaves the value v.
ValueRoundTrip ==
    [][(RoundTripCase /\ lastStep'.op = "drag" /\ position'.x = valueAsPercentage) =>
          /\ Mul(valueAsPercentage, I(props.max - props.min))
                 = Mul(I(100), Sub(props.modelValue, I(props.min)))
          /\ ~lastStep'.emitted
          /\ props'.modelValue = props.modelValue
          /\ sliderVal' = props.modelValue]_vars

\* a drag has gone to the percentage a value off both ends of the range is
\* rendered at
RoundTripDone ==
    /\ RoundTripCase
    /\ lastStep.op = "drag"
    /\ position.x = valueAsPercentage
    /\ props.min # 0
    /\ props.min < props.modelValue[1]
    /\ props.modelValue[1] < props.max

\* distance, clamping and linear interpolation, stated apart from the code
Dist(a, b) == IF Less(a, b) THEN Sub(b, a) ELSE Sub(a, b)

Clamped(v) ==
    IF Less(v, I(props.min)) THEN I(props.min)
    ELSE IF Less(I(props.max), v) THEN I(props.max) ELSE v

RawValue(p) ==
    Add(I(props.min), Div(Mul(p, I(props.max - props.min)), I(100)))

\* v is a multiple of step at most half a step from the raw value of p,
\* clamped; the multiples to try are the two around the raw value
NearestStep(p, v) ==
    LET raw == RawValue(p)
        below == raw[1] \div (raw[2] * props.step)
    IN  \E k \in {below, below + 1} :
            /\ Leq(Mul(I(2), Dist(raw, I(k * props.step))), I(props.step))
            /\ v = Clamped(I(k * props.step))

\* C8: with step > 0 a drag that moves position.x to p derives the multiple
\* of step nearest to min + p/100*(max-min), clamped to [min,max]; for min=0,
\* max=100, step=10 a whole p maps to the nearest multiple of 10, 44 to 40
\* and 46 to 50.
StepQuantization ==
    [][(/\ lastStep'.op = "drag"
        /\ position'.x # position.x
        /\ props.step > 0
        /\ props.min <= props.max) =>
          /\ NearestStep(position'.x, sliderVal')
          /\ props'.modelValue = sliderVal'
          /\ (props.min = 0 /\ props.max = 100 /\ props.step = 10) =>
                 /\ position'.x = I(44) => sliderVal' = I(40)
                 /\ position'.x = I(46) => sliderVal' = I(50)
                 /\ position'.x[2] = 1 =>
                        /\ sliderVal'[2] = 1
                        /\ sliderVal'[1] % 10 = 0
                        /\ Abs(sliderVal'[1] - position'.x[1]) <= 5]_vars

\* a drag to 46 percent has emitted 50
Drag46Gives50 ==
    /\ props.min = 0 /\ props.max = 100 /\ props.step = 10
    /\ lastStep.op = "drag"
    /\ lastStep.emitted
    /\ position.x = I(46)
    /\ lastEmit = I(50)

\* clamp(clickX - w/2, 0, W - w) for the press the handler is suspended on
JumpX ==
    LET clickX == Sub(jobs.event.clientX, I(dom.pLeft))
        t == Sub(clickX, Num(dom.eW, 2))
        hi == I(dom.pW - dom.eW)
    IN  IF Less(t, I(0)) THEN I(0) ELSE IF Less(hi, t) THEN hi ELSE t

\* C9: a track press at clickX (relative to the track of width W, thumb
\* width w) sets position.x to clamp(clickX - w/2, 0, W-w)/(W-w)*100, or 0
\* when W-w <= 0, and y to 0; the value it emits is the one a drag derives
\* from that percentage; W=200, w=20, clickX=100, min=0, max=100, step=1
\* give 50 percent and the value 50.
ClickToJump ==
    (lastStep.op = "track" /\ ~props.disabled /\ lastStep.point) =>
        /\ jobs.resume
        /\ position.y = I(0)
        /\ IF dom.pW - dom.eW > 0
           THEN Mul(position.x, I(dom.pW - dom.eW)) = Mul(I(100), JumpX)
           ELSE position.x = I(0)
        /\ sliderVal = WatchValue(props, position.x)
        /\ lastStep.emitted = (sliderVal # props.modelValue)
        /\ lastStep.emitted => lastEmit = sliderVal
        /\ (/\ dom.pW = 200 /\ dom.eW = 20
            /\ Sub(jobs.event.clientX, I(dom.pLeft)) = I(100)
            /\ props.min = 0 /\ props.max = 100 /\ props.step = 1) =>
               position.x = I(50) /\ sliderVal = I(50)

\* the press of the scenario: 50 percent, and 50 emitted
JumpToMiddleEmits50 ==
    /\ lastStep.op = "track"
    /\ dom.pW = 200 /\ dom.eW = 20
    /\ Sub(jobs.event.clientX, I(dom.pLeft)) = I(100)
    /\ position.x = I(50)
    /\ lastStep.emitted
    /\ lastEmit = I(50)

\* the four document-level listeners of a drag
AllListeners == {"mousemove", "mouseup", "touchend", "touchmove"}

\* C10: a track press on an enabled Slider mutates position and emits
\* without invoking onMouseDown; onMouseDown is invoked by the deferred
\* step, after the re-render and the watcher's job; after it the engine is
\* dragging with its document listeners registered, the next move event
\* assigns position, and the next pointer-up ends the drag.
TrackPressThenDrag ==
    /\ []((lastStep.op = "track" /\ ~props.disabled /\ lastStep.point) =>
             /\ ~lastStep.called
             /\ jobs.resume
             /\ jobs.watcher
             /\ sliderVal = ClickValue(position.x))
    /\ [][lastStep'.op = "track" => UNCHANGED sessionVars]_vars
    /\ [][lastStep'.op = "resume" =>
             /\ lastStep.op \in {"render", "watcher"}
             /\ ~jobs.render /\ ~jobs.watcher
             /\ props.modelValue = sliderVal
             /\ lastStep'.called
             /\ isDragging' /\ docListeners' = AllListeners
             /\ UNCHANGED <<position, sliderVal>>]_vars
    /\ [][(lastStep.op = "resume" /\ lastStep'.op = "move" /\ lastStep'.point) =>
             jobs'.watcher /\ isDragging']_vars
    /\ [][(lastStep.op = "resume" /\ lastStep'.op = "up") =>
             ~isDragging' /\ docListeners' = {}]_vars

\* a press has emitted and its deferred step has started the drag
DeferredStepStartedDrag ==
    /\ lastStep.op = "resume"
    /\ lastStep.called
    /\ isDragging
    /\ docListeners = AllListeners
    /\ held = 1
    /\ lastEmit # NoValue
    /\ lastEmit = props.modelValue

\* C15: the four document-level listeners are registered exactly while
\* isDragging is true; a pointer-down during a drag adds no second
\* registration, so that the one pointer-up that follows removes them all.
ListenersIffDragging ==
    /\ [](IF isDragging THEN docListeners = AllListeners ELSE docListeners = {})
    /\ [][(lastStep'.op = "down" /\ isDragging) =>
             docListeners' = docListeners]_vars
    /\ [][(lastStep'.op = "up" /\ isDragging) =>
             ~isDragging' /\ docListeners' = {}]_vars

\* two pointers went down on the target and one has been released
ReleasedOneOfTwo ==
    /\ lastStep.op = "up"
    /\ held = 1
    /\ ~elementRect.isNull
    /\ ignore = "none"
    /\ ~isDragging
    /\ docListeners = {}

\* C16: while the second instance is idle, a press on the first
\* instance's event target and the document's move and up events leave the
\* second instance's isDragging, position and listener registration as they
\* are, and the same with the instances exchanged; an instance has document
\* listeners registered only while it is dragging, so the document's events
\* reach dragging instances only.
InstancesIndependent ==
    /\ [][(~other.isDragging /\ lastStep'.op \in {"down", "move", "up"}) =>
             /\ other'.isDragging = other.isDragging
             /\ other'.position = other.position
             /\ other'.docListeners = other.docListeners]_vars
    /\ [][(~isDragging /\ lastStep'.op \in {"downOther", "move", "up"}) =>
             UNCHANGED <<isDragging, position, docListeners>>]_vars
    /\ [](other.docListeners # {} => other.isDragging)
    /\ [](docListeners # {} => isDragging)

\* both instances have had a drag session and are idle again; the first
\* was dragged away from the near end and the second rests where it was
DraggedOneAfterTheOther ==
    /\ lastStep.op = "up"
    /\ held = 0
    /\ ~isDragging
    /\ ~other.isDragging
    /\ ~elementRect.isNull
    /\ ~other.elementRect.isNull
    /\ position.x # I(0)
    /\ other.position.x = I(0)

\* C17: from the pointer-down that starts a drag session to its pointer-up
\* the captured parent rectangle, target rectangle and pointer offset stay
\* as captured: no step taken while the engine is and remains dragging
\* changes them.
SessionDataFixedDuringDrag ==
    [][(isDragging /\ isDragging') =>
          UNCHANGED <<parentRect, elementRect, relativeClickOffset>>]_vars

\* C18: right after a pointer-down on an element, drag initiation has run
\* only if the element is the one the event-source reference holds now,
\* never while the reference is unset, and exactly once when the element
\* is the one it holds.
PressReachesCurrentSourceOnce ==
    lastStep.op = "down" =>
        /\ eventTarget = "none" => pressed.calls = 0 /\ ~lastStep.called
        /\ pressed.calls > 0 => pressed.on = eventTarget
        /\ pressed.on = eventTarget => pressed.calls = 1

\* position p is the clamped coordinate c as a percentage of w on the x
\* axis and of h on the y axis
PercentOf(p, c, w, h) ==
    /\ Mul(p.x, I(w)) = Mul(I(100), c.x)
    /\ Mul(p.y, I(h)) = Mul(I(100), c.y)

\* C19: the position a processed move produces is, on both axes, the
\* clamped coordinate as a percentage of (parent size - target size) with
\* offset-mode enabled (100 at the far end and 0 at the near end of a
\* target that is not centered) and of the parent's full size with
\* offset-mode disabled; stated for a target smaller than its parent and
\* for every event the step may have processed.
OffsetModeOnBothAxes ==
    [][\A ev \in MoveEvents :
          (/\ lastStep'.op = "move"
           /\ Moves(ev)
           /\ position' = MovedPosition(ev)
           /\ parentRect.width > elementRect.width
           /\ parentRect.height > elementRect.height) =>
              LET c == ClampedCoordinate(ev, parentRect, elementRect,
                                         relativeClickOffset)
              IN  IF useOffset
                  THEN PercentOf(position', c,
                                 parentRect.width - elementRect.width,
                                 parentRect.height - elementRect.height)
                  ELSE PercentOf(position', c, parentRect.width,
                                 parentRect.height)]_vars

\* t clamped to [lo, hi]; lo when the range is empty
ClampTo(t, lo, hi) ==
    IF Less(hi, lo) \/ Less(t, lo) THEN lo ELSE IF Less(hi, t) THEN hi ELSE t

\* the coordinate of a move clamped on both axes, with the lower bounds
\* half the target's size when centered and 0 when not, and the upper
\* bounds hiCentered and hiPlain
ClampedBy(ev, hiCentered, hiPlain) ==
    LET t == TargetCoordinate(ev, parentRect, relativeClickOffset)
        lo == IF centered
              THEN [x |-> Num(elementRect.width, 2), y |-> Num(elementRect.height, 2)]
              ELSE [x |-> I(0), y |-> I(0)]
        hi == IF centered THEN hiCentered ELSE hiPlain
    IN  [x |-> ClampTo(t.x, lo.x, hi.x), y |-> ClampTo(t.y, lo.y, hi.y)]

\* parent size - target size / 2, parent size, parent size - target size
LessHalfTarget ==
    [x |-> Sub(I(parentRect.width), Num(elementRect.width, 2)),
     y |-> Sub(I(parentRect.height), Num(elementRect.height, 2))]

ParentSize == [x |-> I(parentRect.width), y |-> I(parentRect.height)]

LessTarget ==
    [x |-> I(parentRect.width - elementRect.width),
     y |-> I(parentRect.height - elementRect.height)]

\* C20 as stated: on each processed move the target coordinate is clamped,
\* before the conversion to a percentage, to [target size / 2, parent size
\* - target size / 2] when centered and to [0, parent size] when not, on
\* both axes.
ClampedToParentSize ==
    [][\A ev \in MoveEvents :
          (/\ lastStep'.op = "move"
           /\ Moves(ev)
           /\ position' = MovedPosition(ev)) =>
              LET c == ClampedBy(ev, LessHalfTarget, ParentSize)
              IN  /\ ClampedCoordinate(ev, parentRect, elementRect,
                                       relativeClickOffset) = c
                  /\ position' = Percent(c, parentRect, elementRect)]_vars

\* C20 as amended: the range of a target that is not centered is
\* [0, parent size - target size], and an empty range gives its lower
\* bound; in every state of a drag, for every move event, the coordinate
\* the handler clamps is the one so clamped, and the position a processed
\* move produces is the conversion of such a coordinate.
ClampedToTravelRange ==
    /\ [](\A ev \in MoveEvents :
             Moves(ev) =>
                 ClampedCoordinate(ev, parentRect, elementRect, relativeClickOffset)
                     = ClampedBy(ev, LessHalfTarget, LessTarget))
    /\ [][(lastStep'.op = "move" /\ isDragging /\ position' # position) =>
             \E ev \in MoveEvents :
                 /\ Moves(ev)
                 /\ position' = Percent(ClampedBy(ev, LessHalfTarget, LessTarget),
                                        parentRect, elementRect)]_vars

\* a move has taken a centered target to the far end of its range on x
CenteredAtFarEnd ==
    /\ lastStep.op = "move"
    /\ isDragging
    /\ centered
    /\ ~useOffset
    /\ Mul(position.x, I(parentRect.width)) = Mul(I(100), LessHalfTarget.x)

====
